---- MODULE Spec2Model ----
(***************************************************************************)
(* EPCGenericRTDyldMemoryManager (llvm/lib/ExecutionEngine/Orc): the       *)
(* remote memory manager of the JIT.  Threads call into one manager; the   *)
(* mutex M makes each guarded block one atomic step, and a remote call     *)
(* (reserve, finalize) is issued in one step and answered in a later one.  *)
(***************************************************************************)
EXTENDS Integers, Sequences, FiniteSets, TLC

VARIABLES
  Unmapped,         \* std::vector<AllocGroup> Unmapped
  Unfinalized,      \* std::vector<AllocGroup> Unfinalized
  ErrMsg,           \* std::string ErrMsg, the sticky error ("" when empty)
  FinalizedAllocs,  \* std::vector<ExecutorAddr> FinalizedAllocs
  M,                \* std::mutex M: the thread that holds it, NoThread when free
  pc,               \* per thread: where it is inside a member function
  loc,              \* per thread: the locals of the call in progress
  out,              \* per thread: the remote call it is blocked in
  ret,              \* per thread: what its finalizeMemory call did and returned
  ub,               \* undefined behaviour was executed (back() of an empty vector)
  destroyed,        \* the destructor has run
  dtorCalls,        \* the remote calls the destructor issued
  execNext,         \* executor: the next free address of its address space
  stage,            \* per thread: the loader's position in loading its object
  scenario,         \* how the manager is used: "one", "two" or "conc" (see MayStart)
  cnt,              \* how many calls of each kind were started
  errId,            \* history: which error occurrence ErrMsg holds (0: none)
  reports,          \* history: per error occurrence, finalizeMemory calls that reported it
  finalizeIssued,   \* history: per group, remote finalize calls issued for it
  finalizedOk       \* history: the groups whose remote finalize call succeeded

vars == <<Unmapped, Unfinalized, ErrMsg, FinalizedAllocs, M, pc, loc, out, ret, ub,
          destroyed, dtorCalls, execNext, stage, scenario, cnt, errId,
          reports, finalizeIssued, finalizedOk>>

----------------------------------------------------------------------------
(* Bounds of the model. *)
MaxAllocs == 2     \* allocateCodeSection / allocateDataSection calls
MaxFrames == 1     \* registerEHFrames calls

Threads == {"t1", "t2"}

(* EPC.getPageSize(): fixed for the manager's lifetime. *)
PageSize == 2

(* The inputs the callers choose from: most when one object is loaded. *)
CodeSizes == {3}
RODataSizes == IF scenario = "one" THEN {0, 3} ELSE {3}
RWDataSizes == IF scenario = "one" THEN {0, 1} ELSE {1}
ReserveAligns == IF scenario = "one" THEN {1, 0, 4} ELSE {1, 0}
SectionSizes == {1}
SectionAligns == IF scenario = "one" THEN {1, 2, 4} ELSE {2}
FrameSizes == {1}
LoadAddrs == IF scenario = "conc" THEN {5, 40} ELSE {1, 5, 40}

(* SymbolAddrs SAs: resolved once, by name. *)
SAs == [Instance |-> "Instance", Reserve |-> "Reserve", Finalize |-> "Finalize",
        Deallocate |-> "Deallocate", RegisterEHFrame |-> "RegisterEHFrame",
        DeregisterEHFrame |-> "DeregisterEHFrame"]

NoCall == [Fn |-> "none"]
NoThread == "none"
NoLocals == [CodeSize |-> 0, RODataSize |-> 0, RWDataSize |-> 0,
             Allocs |-> <<>>, HasErrMsg |-> FALSE]
NoRet == [State |-> "never", HasErrMsg |-> FALSE, EntryErr |-> "",
          Result |-> FALSE, Msg |-> ""]

----------------------------------------------------------------------------
(* llvm/Support/MathExtras.h *)
alignTo(Value, Align) == ((Value + Align - 1) \div Align) * Align

RECURSIVE isPowerOf2_32(_)
isPowerOf2_32(Value) ==
  \/ Value = 1
  \/ Value > 1 /\ Value % 2 = 0 /\ isPowerOf2_32(Value \div 2)

(* ExecutorAddrRange(Start, Size) and ExecutorAddrRange::contains *)
ExecutorAddrRange(Start, Size) == [Start |-> Start, End |-> Start + Size]

contains(Range, Addr) == Range.Start <= Addr /\ Addr < Range.End

(* Alloc(Size, Align): RemoteAddr is default-constructed (null).  Mapped   *)
(* is history: Dyld.mapSectionAddress was called for the section, with     *)
(* RemoteAddr as the target address; by is the thread that staged it.      *)
Alloc(Size, Align, t) ==
  [Size |-> Size, Align |-> Align, RemoteAddr |-> 0, Mapped |-> FALSE, by |-> t]

(* AllocGroup(): id, owner, base and req are history (which reservation,   *)
(* by which thread, the address the executor returned, the sizes asked).   *)
AllocGroup(id, t) ==
  [id |-> id, owner |-> t, base |-> 0, req |-> <<0, 0, 0>>,
   RemoteCode |-> ExecutorAddrRange(0, 0),
   RemoteROData |-> ExecutorAddrRange(0, 0),
   RemoteRWData |-> ExecutorAddrRange(0, 0),
   CodeAllocs |-> <<>>, RODataAllocs |-> <<>>, RWDataAllocs |-> <<>>,
   UnfinalizedEHFrames |-> <<>>]

----------------------------------------------------------------------------
(* The loader's protocol for one object (RuntimeDyld): reserve, allocate   *)
(* the sections, notifyObjectLoaded, then registerEHFrames and             *)
(* finalizeMemory.  Each thread loads one object.                          *)
StageOK(t, op) ==
  \/ op = "reserve" /\ stage[t] = "new"
  \/ op \in {"alloc", "notify"} /\ stage[t] = "staging"
  \/ op \in {"frame", "finalize"} /\ stage[t] = "loaded"

StageAfter(t, op) ==
  [stage EXCEPT ![t] =
     CASE op \in {"reserve", "alloc"} -> "staging"
       [] op \in {"notify", "frame"} -> "loaded"
       [] OTHER -> "done"]

(* Thread t may take a step: always when the threads' calls may overlap   *)
(* (scenario "conc"), else only while no other thread is inside a call.    *)
MayRun(t) ==
  /\ ~ub
  /\ scenario = "conc" \/ \A u \in Threads \ {t} : pc[u] = "idle"

(* Thread t may start loading its object: in scenario "one" a single      *)
(* object is loaded; in "two" the objects are loaded one after the other   *)
(* (none is started while another is between reserve and notify); in       *)
(* "conc" at any time.                                                     *)
MayStart(t, op) ==
  \/ op # "reserve"
  \/ scenario = "one" /\ t = "t1"
  \/ scenario = "two" /\ \A u \in Threads \ {t} : stage[u] # "staging"
  \/ scenario = "conc"

Callable(t, op) ==
  /\ MayRun(t)
  /\ MayStart(t, op)
  /\ ~destroyed
  /\ pc[t] = "idle"
  /\ StageOK(t, op)

(* std::lock_guard<std::mutex> Lock(M): thread t can take the mutex. *)
lock_guard(t) == M = NoThread

(* The holder of M when reserveAllocationSpace leaves its first guarded    *)
(* block: a slip, the guard lives to the end of the function.              *)
HolderAfterReserveBlock_FunctionScope(t) == t

(* The holder of M when reserveAllocationSpace leaves its first guarded    *)
(* block, before TotalSize is computed and the remote call is issued.      *)
HolderAfterReserveBlock(t) == NoThread

(* The holder of M when finalizeMemory leaves the guarded block in which   *)
(* it takes the Unfinalized groups, before its loop issues remote calls.   *)
HolderAfterFinalizeBlock(t) == NoThread

(* A new error occurrence becomes the sticky error. *)
NewError == Len(reports) + 1

----------------------------------------------------------------------------
InitWith(Scenario) ==
  /\ Unmapped = <<>>
  /\ Unfinalized = <<>>
  /\ ErrMsg = ""
  /\ FinalizedAllocs = <<>>
  /\ M = NoThread
  /\ pc = [t \in Threads |-> "idle"]
  /\ loc = [t \in Threads |-> NoLocals]
  /\ out = [t \in Threads |-> NoCall]
  /\ ret = [t \in Threads |-> NoRet]
  /\ ub = FALSE
  /\ destroyed = FALSE
  /\ dtorCalls = <<>>
  /\ execNext = PageSize
  /\ stage = [t \in Threads |-> "new"]
  /\ scenario = Scenario
  /\ cnt = [allocs |-> 0, frames |-> 0]
  /\ errId = 0
  /\ reports = <<>>
  /\ finalizeIssued = <<>>
  /\ finalizedOk = {}

----------------------------------------------------------------------------
(* The rest of the state, as a whole, for UNCHANGED. *)
history == <<errId, reports, finalizeIssued, finalizedOk>>
fixed == <<FinalizedAllocs, scenario>>

(* ErrMsg = Msg: a new error occurrence becomes the sticky error. *)
SetError(Msg) ==
  /\ ErrMsg' = Msg
  /\ errId' = NewError
  /\ reports' = Append(reports, 0)

----------------------------------------------------------------------------
(* allocateCodeSection / allocateDataSection: Seg = Unmapped.back().<class>;  *)
(* Seg.emplace_back(Size, Alignment).                                      *)
EmplaceBack(Class, Size, Alignment, t) ==
  [Unmapped EXCEPT ![Len(Unmapped)] =
     [@ EXCEPT ![Class] = Append(@, Alloc(Size, Alignment, t))]]

allocateSection(t, Class, Size, Alignment) ==
  /\ Callable(t, "alloc")
  /\ lock_guard(t)
  /\ cnt.allocs < MaxAllocs
  /\ cnt' = [cnt EXCEPT !.allocs = @ + 1]
  /\ stage' = StageAfter(t, "alloc")
  /\ IF Unmapped = <<>>
       THEN \* Unmapped.back() of an empty vector
            /\ ub' = TRUE
            /\ UNCHANGED Unmapped
       ELSE /\ Unmapped' = EmplaceBack(Class, Size, Alignment, t)
            /\ UNCHANGED ub
  /\ UNCHANGED <<Unfinalized, ErrMsg, fixed, M, pc, loc, out, ret,
                 destroyed, dtorCalls, execNext, history>>

allocateCodeSection(t, Size, Alignment) ==
  allocateSection(t, "CodeAllocs", Size, Alignment)

allocateDataSection(t, Size, Alignment, IsReadOnly) ==
  allocateSection(t, IF IsReadOnly THEN "RODataAllocs" ELSE "RWDataAllocs",
                  Size, Alignment)

----------------------------------------------------------------------------
(* A slip: the rw-data alignment is not compared with the page size. *)
InvalidAlignment_RWUnbounded(CodeAlign, RODataAlign, RWDataAlign) ==
  IF ~isPowerOf2_32(CodeAlign) \/ CodeAlign > PageSize
    THEN "Invalid code alignment in reserveAllocationSpace"
  ELSE IF ~isPowerOf2_32(RODataAlign) \/ RODataAlign > PageSize
    THEN "Invalid ro-data alignment in reserveAllocationSpace"
  ELSE IF ~isPowerOf2_32(RWDataAlign)
    THEN "Invalid rw-data alignment in reserveAllocationSpace"
  ELSE ""

(* reserveAllocationSpace, the guarded block at its start: the message of  *)
(* the alignment that fails validation, "" when all three pass.            *)
InvalidAlignment(CodeAlign, RODataAlign, RWDataAlign) ==
  IF ~isPowerOf2_32(CodeAlign) \/ CodeAlign > PageSize
    THEN "Invalid code alignment in reserveAllocationSpace"
  ELSE IF ~isPowerOf2_32(RODataAlign) \/ RODataAlign > PageSize
    THEN "Invalid ro-data alignment in reserveAllocationSpace"
  ELSE IF ~isPowerOf2_32(RWDataAlign) \/ RWDataAlign > PageSize
    THEN "Invalid rw-data alignment in reserveAllocationSpace"
  ELSE ""

(* A slip: the sum is rounded, not each size. *)
TotalSize_RoundsSum(CodeSize, RODataSize, RWDataSize) ==
  alignTo(CodeSize + RODataSize + RWDataSize, PageSize)

(* TotalSize: the three sizes, each rounded up to the page size. *)
TotalSize(CodeSize, RODataSize, RWDataSize) ==
  alignTo(CodeSize, PageSize) + alignTo(RODataSize, PageSize)
    + alignTo(RWDataSize, PageSize)

(* The request of the remote reserve call. *)
ReserveCall(CodeSize, RODataSize, RWDataSize) ==
  [Fn |-> SAs.Reserve, Instance |-> SAs.Instance,
   Size |-> TotalSize(CodeSize, RODataSize, RWDataSize)]

(* Up to the remote call: bail out on an error, validate, issue the call. *)
reserveAllocationSpace(t, CodeSize, CodeAlign, RODataSize, RODataAlign, RWDataSize, RWDataAlign) ==
  /\ Callable(t, "reserve")
  /\ lock_guard(t)
  /\ stage' = StageAfter(t, "reserve")
  /\ IF ErrMsg # ""
       THEN UNCHANGED <<ErrMsg, errId, reports, M, pc, loc, out>>
     ELSE IF InvalidAlignment(CodeAlign, RODataAlign, RWDataAlign) # ""
       THEN /\ SetError(InvalidAlignment(CodeAlign, RODataAlign, RWDataAlign))
            /\ UNCHANGED <<M, pc, loc, out>>
     ELSE /\ M' = HolderAfterReserveBlock(t)
          /\ pc' = [pc EXCEPT ![t] = "reserveWait"]
          /\ loc' = [loc EXCEPT ![t] = [NoLocals EXCEPT !.CodeSize = CodeSize,
                                                        !.RODataSize = RODataSize,
                                                        !.RWDataSize = RWDataSize]]
          /\ out' = [out EXCEPT ![t] = ReserveCall(CodeSize, RODataSize, RWDataSize)]
          /\ UNCHANGED <<ErrMsg, errId, reports>>
  /\ UNCHANGED <<Unmapped, Unfinalized, fixed, ret, ub, destroyed,
                 dtorCalls, execNext, cnt, finalizeIssued, finalizedOk>>

(* A slip: the read-write range starts where the code range ends. *)
ReservedGroup_RWAtCodeEnd(id, t, TargetAllocAddr, CodeSize, RODataSize, RWDataSize) ==
  LET RemoteCode == ExecutorAddrRange(TargetAllocAddr, alignTo(CodeSize, PageSize))
      RemoteROData == ExecutorAddrRange(RemoteCode.End, alignTo(RODataSize, PageSize))
      RemoteRWData == ExecutorAddrRange(RemoteCode.End, alignTo(RWDataSize, PageSize))
  IN [AllocGroup(id, t) EXCEPT !.base = TargetAllocAddr,
                               !.req = <<CodeSize, RODataSize, RWDataSize>>,
                               !.RemoteCode = RemoteCode,
                               !.RemoteROData = RemoteROData,
                               !.RemoteRWData = RemoteRWData]

(* Unmapped.push_back(AllocGroup()) and the three ranges of the new group. *)
ReservedGroup(id, t, TargetAllocAddr, CodeSize, RODataSize, RWDataSize) ==
  LET RemoteCode == ExecutorAddrRange(TargetAllocAddr, alignTo(CodeSize, PageSize))
      RemoteROData == ExecutorAddrRange(RemoteCode.End, alignTo(RODataSize, PageSize))
      RemoteRWData == ExecutorAddrRange(RemoteROData.End, alignTo(RWDataSize, PageSize))
  IN [AllocGroup(id, t) EXCEPT !.base = TargetAllocAddr,
                               !.req = <<CodeSize, RODataSize, RWDataSize>>,
                               !.RemoteCode = RemoteCode,
                               !.RemoteROData = RemoteROData,
                               !.RemoteRWData = RemoteRWData]

(* What the executor may answer to a reserve call: a channel error, an     *)
(* error of its own, the next free range of its address space, or null.    *)
ReserveResponses ==
  IF scenario = "conc"
    THEN {[Kind |-> "channel", Addr |-> 0], [Kind |-> "executor", Addr |-> 0],
          [Kind |-> "ok", Addr |-> execNext]}
    ELSE {[Kind |-> "channel", Addr |-> 0], [Kind |-> "executor", Addr |-> 0],
          [Kind |-> "ok", Addr |-> 0], [Kind |-> "ok", Addr |-> execNext]}

(* A slip: a failed reserve call rolls back the groups still unmapped. *)
reserveFailed_RollsBack(Msg) ==
  /\ SetError(Msg)
  /\ Unmapped' = <<>>
  /\ UNCHANGED <<execNext, finalizeIssued>>

(* The reserve call failed: ErrMsg = toString(...); return. *)
reserveFailed(Msg) ==
  /\ SetError(Msg)
  /\ UNCHANGED <<Unmapped, execNext, finalizeIssued>>

(* The remote reserve call returns. *)
reserveReturn(t, Resp) ==
  /\ MayRun(t)
  /\ pc[t] = "reserveWait"
  /\ lock_guard(t)
  /\ pc' = [pc EXCEPT ![t] = "idle"]
  /\ loc' = [loc EXCEPT ![t] = NoLocals]
  /\ out' = [out EXCEPT ![t] = NoCall]
  /\ IF Resp.Kind = "channel"
       THEN reserveFailed("reserve: channel error")
     ELSE IF Resp.Kind = "executor"
       THEN reserveFailed("reserve: executor error")
     ELSE /\ Unmapped' = Append(Unmapped,
                 ReservedGroup(Len(finalizeIssued) + 1, t, Resp.Addr, loc[t].CodeSize,
                               loc[t].RODataSize, loc[t].RWDataSize))
          /\ finalizeIssued' = Append(finalizeIssued, 0)
          /\ execNext' = IF Resp.Addr = 0 THEN execNext ELSE execNext + out[t].Size
          /\ UNCHANGED <<ErrMsg, errId, reports>>
  /\ UNCHANGED <<Unfinalized, fixed, M, ret, ub, destroyed, dtorCalls,
                 stage, cnt, finalizedOk>>

----------------------------------------------------------------------------
(* registerEHFrames, the loop over llvm::reverse(Unfinalized): the index   *)
(* of the group the frame goes to, 0 when no range contains LoadAddr.      *)
RECURSIVE ReverseFind(_, _)
ReverseFind(i, LA) ==
  IF i = 0 THEN 0
  ELSE IF \/ contains(Unfinalized[i].RemoteCode, LA)
          \/ contains(Unfinalized[i].RemoteROData, LA)
          \/ contains(Unfinalized[i].RemoteRWData, LA)
    THEN i
  ELSE ReverseFind(i - 1, LA)

(* A slip: a frame that no range contains goes to the last group. *)
FrameGroup_LastWhenNone(LoadAddr) ==
  IF ReverseFind(Len(Unfinalized), LoadAddr) = 0
    THEN Len(Unfinalized)
    ELSE ReverseFind(Len(Unfinalized), LoadAddr)

(* A slip: the groups are scanned oldest first. *)
FrameGroup_ForwardScan(LoadAddr) ==
  IF ReverseFind(Len(Unfinalized), LoadAddr) = 0 THEN 0
  ELSE CHOOSE i \in 1 .. Len(Unfinalized) :
         /\ ReverseFind(i, LoadAddr) = i
         /\ \A j \in 1 .. (i - 1) : ReverseFind(j, LoadAddr) = 0

FrameGroup(LoadAddr) == ReverseFind(Len(Unfinalized), LoadAddr)

registerEHFrames(t, LoadAddr, Size) ==
  /\ Callable(t, "frame")
  /\ lock_guard(t)
  /\ cnt.frames < MaxFrames
  /\ cnt' = [cnt EXCEPT !.frames = @ + 1]
  /\ stage' = StageAfter(t, "frame")
  /\ IF ErrMsg # ""
       THEN UNCHANGED <<Unfinalized, ErrMsg, errId, reports>>
     ELSE IF FrameGroup(LoadAddr) # 0
       THEN /\ Unfinalized' =
                 [Unfinalized EXCEPT ![FrameGroup(LoadAddr)].UnfinalizedEHFrames =
                    Append(@, [Addr |-> LoadAddr, Size |-> Size])]
            /\ UNCHANGED <<ErrMsg, errId, reports>>
     ELSE /\ SetError("eh-frame does not lie inside unfinalized alloc")
          /\ UNCHANGED Unfinalized
  /\ UNCHANGED <<Unmapped, fixed, M, pc, loc, out, ret, ub, destroyed,
                 dtorCalls, execNext, finalizeIssued, finalizedOk>>

----------------------------------------------------------------------------
(* A slip: NextAddr is not aligned to the section's alignment. *)
RECURSIVE mapAllocsToRemoteAddrs_Unaligned(_, _)
mapAllocsToRemoteAddrs_Unaligned(Allocs, NextAddr) ==
  IF Allocs = <<>> THEN <<>>
  ELSE <<[Head(Allocs) EXCEPT !.RemoteAddr = NextAddr, !.Mapped = TRUE]>>
         \o mapAllocsToRemoteAddrs_Unaligned(
              Tail(Allocs),
              IF NextAddr # 0 THEN NextAddr + Head(Allocs).Size ELSE NextAddr)

(* A slip: NextAddr is advanced also when it is null. *)
RECURSIVE mapAllocsToRemoteAddrs_AlwaysAdvances(_, _)
mapAllocsToRemoteAddrs_AlwaysAdvances(Allocs, NextAddr) ==
  IF Allocs = <<>> THEN <<>>
  ELSE <<[Head(Allocs) EXCEPT !.RemoteAddr = alignTo(NextAddr, Head(Allocs).Align),
                              !.Mapped = TRUE]>>
         \o mapAllocsToRemoteAddrs_AlwaysAdvances(
              Tail(Allocs), alignTo(NextAddr, Head(Allocs).Align) + Head(Allocs).Size)

(* mapAllocsToRemoteAddrs: the Allocs with their RemoteAddr assigned. *)
RECURSIVE mapAllocsToRemoteAddrs(_, _)
mapAllocsToRemoteAddrs(Allocs, NextAddr) ==
  IF Allocs = <<>> THEN <<>>
  ELSE LET Aligned == alignTo(NextAddr, Head(Allocs).Align)
           \* Only advance NextAddr if it was non-null to begin with.
           Advanced == IF Aligned # 0 THEN Aligned + Head(Allocs).Size ELSE Aligned
       IN \* Dyld.mapSectionAddress(..., NextAddr.getValue()); Alloc.RemoteAddr = NextAddr
          <<[Head(Allocs) EXCEPT !.RemoteAddr = Aligned, !.Mapped = TRUE]>>
            \o mapAllocsToRemoteAddrs(Tail(Allocs), Advanced)

(* notifyObjectLoaded, the body of its loop for one group. *)
MapGroup(ObjAllocs) ==
  [ObjAllocs EXCEPT
     !.CodeAllocs = mapAllocsToRemoteAddrs(@, ObjAllocs.RemoteCode.Start),
     !.RODataAllocs = mapAllocsToRemoteAddrs(@, ObjAllocs.RemoteROData.Start),
     !.RWDataAllocs = mapAllocsToRemoteAddrs(@, ObjAllocs.RemoteRWData.Start)]

(* A slip: Unmapped is not cleared after its groups were moved. *)
MoveToUnfinalized_NoClear ==
  [Unfinalized |-> Unfinalized \o [i \in 1 .. Len(Unmapped) |-> MapGroup(Unmapped[i])],
   Unmapped |-> Unmapped]

(* A slip: the mapped groups are put in front of the pending ones. *)
MoveToUnfinalized_InFront ==
  [Unfinalized |-> [i \in 1 .. Len(Unmapped) |-> MapGroup(Unmapped[i])] \o Unfinalized,
   Unmapped |-> <<>>]

(* notifyObjectLoaded, its loop and Unmapped.clear(): the two sequences    *)
(* after each group was mapped and pushed to the back of Unfinalized.      *)
MoveToUnfinalized ==
  [Unfinalized |-> Unfinalized \o [i \in 1 .. Len(Unmapped) |-> MapGroup(Unmapped[i])],
   Unmapped |-> <<>>]

notifyObjectLoaded(t) ==
  /\ Callable(t, "notify")
  /\ lock_guard(t)
  /\ stage' = StageAfter(t, "notify")
  /\ Unfinalized' = MoveToUnfinalized.Unfinalized
  /\ Unmapped' = MoveToUnfinalized.Unmapped
  /\ UNCHANGED <<ErrMsg, fixed, M, pc, loc, out, ret, ub, destroyed,
                 dtorCalls, execNext, cnt, history>>

----------------------------------------------------------------------------
(* finalizeMemory, per segment: Seg.Size, aligning the running size to     *)
(* each section and adding the section's size.                             *)
RECURSIVE SegSize(_, _)
SegSize(Allocs, Size) ==
  IF Allocs = <<>> THEN Size
  ELSE SegSize(Tail(Allocs), alignTo(Size, Head(Allocs).Align) + Head(Allocs).Size)

(* The offsets in AggregateContents[I] the sections are copied to. *)
RECURSIVE CopyOffsets(_, _)
CopyOffsets(Allocs, SecOffset) ==
  IF Allocs = <<>> THEN <<>>
  ELSE <<alignTo(SecOffset, Head(Allocs).Align)>>
         \o CopyOffsets(Tail(Allocs),
                        alignTo(SecOffset, Head(Allocs).Align) + Head(Allocs).Size)

(* SecOffset after the copy loop: the length of Seg.Content. *)
RECURSIVE ContentSize(_, _)
ContentSize(Allocs, SecOffset) ==
  IF Allocs = <<>> THEN SecOffset
  ELSE ContentSize(Tail(Allocs),
                   alignTo(SecOffset, Head(Allocs).Align) + Head(Allocs).Size)

Segment(Prot, RemoteAddrs, SegSections) ==
  [Prot |-> Prot, Addr |-> RemoteAddrs.Start, Size |-> SegSize(SegSections, 0),
   ContentSize |-> ContentSize(SegSections, 0),
   Offsets |-> CopyOffsets(SegSections, 0)]

(* A slip: the protections of the two data segments are exchanged. *)
SegProts_DataSwapped == <<{"MF_READ", "MF_EXEC"}, {"MF_READ", "MF_WRITE"}, {"MF_READ"}>>

(* SegProts[3] *)
SegProts == <<{"MF_READ", "MF_EXEC"}, {"MF_READ"}, {"MF_READ", "MF_WRITE"}>>

(* tpctypes::FinalizeRequest FR for one group. *)
FinalizeRequest(ObjAllocs) ==
  [Segments |-> <<Segment(SegProts[1], ObjAllocs.RemoteCode, ObjAllocs.CodeAllocs),
                  Segment(SegProts[2], ObjAllocs.RemoteROData, ObjAllocs.RODataAllocs),
                  Segment(SegProts[3], ObjAllocs.RemoteRWData, ObjAllocs.RWDataAllocs)>>,
   Actions |-> [i \in 1 .. Len(ObjAllocs.UnfinalizedEHFrames) |->
                  [Finalize |-> <<SAs.RegisterEHFrame,
                                  ObjAllocs.UnfinalizedEHFrames[i].Addr,
                                  ObjAllocs.UnfinalizedEHFrames[i].Size>>,
                   Deallocate |-> <<SAs.DeregisterEHFrame,
                                    ObjAllocs.UnfinalizedEHFrames[i].Addr,
                                    ObjAllocs.UnfinalizedEHFrames[i].Size>>]]]

(* The request of the remote finalize call for one group. *)
FinalizeCall(ObjAllocs) ==
  [Fn |-> SAs.Finalize, Instance |-> SAs.Instance, Group |-> ObjAllocs.id,
   FR |-> FinalizeRequest(ObjAllocs)]

(* A slip: finalizeMemory also bails out when no group is pending. *)
BailOut_WhenNothingPending(HasErrMsg) ==
  HasErrMsg /\ (ErrMsg # "" \/ Unfinalized = <<>>)

(* Whether finalizeMemory bails out on entry. *)
BailOut(HasErrMsg) == HasErrMsg /\ ErrMsg # ""

(* A slip: the pending groups are copied, not taken. *)
SwapAllocs_Copies == [Allocs |-> Unfinalized, Unfinalized |-> Unfinalized]

(* std::swap(Allocs, Unfinalized) with the local Allocs empty. *)
SwapAllocs == [Allocs |-> Unfinalized, Unfinalized |-> <<>>]

(* finalizeMemory, the guarded block at its start.  A moved-from          *)
(* std::string is left empty by the standard libraries.                    *)
finalizeMemory(t, HasErrMsg) ==
  /\ Callable(t, "finalize")
  /\ lock_guard(t)
  /\ stage' = StageAfter(t, "finalize")
  /\ IF BailOut(HasErrMsg)
       THEN /\ ret' = [ret EXCEPT ![t] =
                         [NoRet EXCEPT !.State = "returned", !.HasErrMsg = HasErrMsg,
                                       !.EntryErr = ErrMsg, !.Result = TRUE,
                                       !.Msg = ErrMsg]]
            /\ ErrMsg' = ""
            /\ errId' = 0
            /\ reports' = [reports EXCEPT ![errId] = @ + 1]
            /\ UNCHANGED <<Unfinalized, M, pc, loc>>
       ELSE /\ ret' = [ret EXCEPT ![t] =
                         [NoRet EXCEPT !.State = "running", !.HasErrMsg = HasErrMsg,
                                       !.EntryErr = ErrMsg]]
            /\ loc' = [loc EXCEPT ![t] = [NoLocals EXCEPT !.Allocs = SwapAllocs.Allocs,
                                                          !.HasErrMsg = HasErrMsg]]
            /\ Unfinalized' = SwapAllocs.Unfinalized
            /\ M' = HolderAfterFinalizeBlock(t)
            /\ pc' = [pc EXCEPT ![t] = "finalizeLoop"]
            /\ UNCHANGED <<ErrMsg, errId, reports>>
  /\ UNCHANGED <<Unmapped, fixed, out, ub, destroyed, dtorCalls,
                 execNext, cnt, finalizeIssued, finalizedOk>>

(* The loop body up to the remote call, for the next group of the batch. *)
finalizeIssue(t) ==
  /\ MayRun(t)
  /\ pc[t] = "finalizeLoop"
  /\ loc[t].Allocs # <<>>
  /\ out' = [out EXCEPT ![t] = FinalizeCall(Head(loc[t].Allocs))]
  /\ finalizeIssued' = [finalizeIssued EXCEPT ![Head(loc[t].Allocs).id] = @ + 1]
  /\ pc' = [pc EXCEPT ![t] = "finalizeWait"]
  /\ UNCHANGED <<Unmapped, Unfinalized, ErrMsg, fixed, M, loc, ret, ub, destroyed,
                 dtorCalls, execNext, stage, cnt, errId, reports, finalizedOk>>

(* What the executor may answer to a finalize call. *)
FinalizeResponses ==
  IF scenario = "conc" THEN {"ok", "channel"} ELSE {"ok", "channel", "executor"}

(* What remains of the batch when the call for its first group failed:     *)
(* finalizeMemory returns and the local vector Allocs is destroyed.        *)
AfterFailure(Allocs) == <<>>

(* The remote finalize call returns: an error becomes the sticky error and *)
(* finalizeMemory returns true; otherwise the loop goes on.                *)
finalizeReturn(t, Resp) ==
  /\ MayRun(t)
  /\ pc[t] = "finalizeWait"
  /\ out' = [out EXCEPT ![t] = NoCall]
  /\ IF Resp \in {"channel", "executor"}
       THEN /\ lock_guard(t)
            /\ ErrMsg' = "finalize: " \o Resp \o " error"
            /\ errId' = NewError
            /\ reports' = Append(reports, IF loc[t].HasErrMsg THEN 1 ELSE 0)
            /\ ret' = [ret EXCEPT ![t].State = "returned", ![t].Result = TRUE,
                                  ![t].Msg = IF loc[t].HasErrMsg THEN ErrMsg' ELSE ""]
            /\ loc' = [loc EXCEPT ![t] = [NoLocals EXCEPT !.Allocs =
                                             AfterFailure(loc[t].Allocs)]]
            /\ pc' = [pc EXCEPT ![t] = "idle"]
            /\ UNCHANGED finalizedOk
       ELSE /\ finalizedOk' = finalizedOk \cup {[id |-> Head(loc[t].Allocs).id,
                                                   base |-> Head(loc[t].Allocs).base]}
            /\ loc' = [loc EXCEPT ![t].Allocs = Tail(@)]
            /\ pc' = [pc EXCEPT ![t] = "finalizeLoop"]
            /\ UNCHANGED <<ErrMsg, errId, reports, ret>>
  /\ UNCHANGED <<Unmapped, Unfinalized, fixed, M, ub, destroyed, dtorCalls,
                 execNext, stage, cnt, finalizeIssued>>

(* The loop is over: return false. *)
finalizeDone(t) ==
  /\ MayRun(t)
  /\ pc[t] = "finalizeLoop"
  /\ loc[t].Allocs = <<>>
  /\ ret' = [ret EXCEPT ![t].State = "returned", ![t].Result = FALSE]
  /\ loc' = [loc EXCEPT ![t] = NoLocals]
  /\ pc' = [pc EXCEPT ![t] = "idle"]
  /\ UNCHANGED <<Unmapped, Unfinalized, ErrMsg, fixed, M, out, ub, destroyed,
                 dtorCalls, execNext, stage, cnt, history>>

----------------------------------------------------------------------------
(* ~EPCGenericRTDyldMemoryManager: the remote call it issues. *)
DestructorCall ==
  [Fn |-> SAs.Reserve, Instance |-> SAs.Instance, Arg |-> FinalizedAllocs]

Destroy ==
  /\ ~ub
  /\ ~destroyed
  /\ \A t \in Threads : pc[t] = "idle" /\ stage[t] \in {"new", "done"}
  /\ destroyed' = TRUE
  /\ dtorCalls' = Append(dtorCalls, DestructorCall)
  /\ UNCHANGED <<Unmapped, Unfinalized, ErrMsg, fixed, M, pc, loc, out, ret,
                 ub, execNext, stage, cnt, history>>

----------------------------------------------------------------------------
Next ==
  \/ \E t \in Threads, Size \in SectionSizes, Alignment \in SectionAligns :
       allocateCodeSection(t, Size, Alignment)
  \/ \E t \in Threads, Size \in SectionSizes, Alignment \in SectionAligns,
        IsReadOnly \in BOOLEAN :
       allocateDataSection(t, Size, Alignment, IsReadOnly)
  \/ \E t \in Threads, CodeSize \in CodeSizes, RODataSize \in RODataSizes,
        RWDataSize \in RWDataSizes, CodeAlign \in ReserveAligns,
        RODataAlign \in ReserveAligns, RWDataAlign \in ReserveAligns :
       reserveAllocationSpace(t, CodeSize, CodeAlign, RODataSize, RODataAlign,
                              RWDataSize, RWDataAlign)
  \/ \E t \in Threads, Resp \in ReserveResponses : reserveReturn(t, Resp)
  \/ \E t \in Threads, LoadAddr \in LoadAddrs, Size \in FrameSizes :
       registerEHFrames(t, LoadAddr, Size)
  \/ \E t \in Threads : notifyObjectLoaded(t)
  \/ \E t \in Threads, HasErrMsg \in BOOLEAN : finalizeMemory(t, HasErrMsg)
  \/ \E t \in Threads : finalizeIssue(t)
  \/ \E t \in Threads, Resp \in FinalizeResponses : finalizeReturn(t, Resp)
  \/ \E t \in Threads : finalizeDone(t)
  \/ Destroy

(* One object is loaded. *)
Init == InitWith("one")

Spec == Init /\ [][Next]_vars

(* Two objects are loaded one after the other and finalized in any order;  *)
(* the calls do not overlap.                                               *)
InitTwo == InitWith("two")

SpecTwo == InitTwo /\ [][Next]_vars

(* Two threads load one object each and their calls overlap: a thread may  *)
(* run while the other is blocked in a remote call.                        *)
InitConc == InitWith("conc")

SpecConc == InitConc /\ [][Next]_vars

----------------------------------------------------------------------------
(* Every group the manager or a finalizeMemory call holds. *)
SeqRange(q) == {q[i] : i \in 1 .. Len(q)}

Batches == UNION {SeqRange(loc[t].Allocs) : t \in Threads}

AllGroups == SeqRange(Unmapped) \cup SeqRange(Unfinalized) \cup Batches

(* n rounded up to the page size: the least multiple of it that is >= n. *)
PageRound(n) ==
  CHOOSE m \in n .. (n + PageSize) :
    m % PageSize = 0 /\ \A k \in n .. (m - 1) : k % PageSize # 0

(* C3: a reserve call asks for the sum of the three sizes each rounded up  *)
(* to the page size, and the pushed group's ranges are code, read-only,    *)
(* read-write in that order from the returned base, each as long as its    *)
(* rounded size, each starting where the one before ends.                  *)
C3_ReserveLayout ==
  /\ \A t \in Threads :
       pc[t] = "reserveWait" =>
         out[t].Size = PageRound(loc[t].CodeSize) + PageRound(loc[t].RODataSize)
                         + PageRound(loc[t].RWDataSize)
  /\ \A g \in AllGroups :
       /\ g.RemoteCode.Start = g.base
       /\ g.RemoteCode.End = g.base + PageRound(g.req[1])
       /\ g.RemoteROData.Start = g.RemoteCode.End
       /\ g.RemoteROData.End = g.RemoteROData.Start + PageRound(g.req[2])
       /\ g.RemoteRWData.Start = g.RemoteROData.End
       /\ g.RemoteRWData.End = g.RemoteRWData.Start + PageRound(g.req[3])

(* A group reserved for three sizes none of which is a multiple of the     *)
(* page size, at a non-null base.                                          *)
C3_Witness ==
  \E g \in SeqRange(Unmapped) :
    /\ g.base # 0
    /\ \A i \in 1 .. 3 : g.req[i] % PageSize # 0
    /\ g.RemoteRWData.End > g.RemoteRWData.Start

(* An alignment reserveAllocationSpace must reject. *)
BadAlignment(a) == ~(\E k \in 0 .. 8 : a = 2 ^ k) \/ a > PageSize

(* C4: a reserveAllocationSpace call with an alignment that is not a power *)
(* of two or exceeds the page size leaves a sticky error, issues no remote *)
(* call and pushes no group.                                               *)
C4_InvalidAlignmentRejected ==
  [][\A t \in Threads, CodeSize \in CodeSizes, RODataSize \in RODataSizes,
        RWDataSize \in RWDataSizes, CodeAlign \in ReserveAligns,
        RODataAlign \in ReserveAligns, RWDataAlign \in ReserveAligns :
       ( /\ reserveAllocationSpace(t, CodeSize, CodeAlign, RODataSize, RODataAlign,
                                   RWDataSize, RWDataAlign)
         /\ \/ BadAlignment(CodeAlign)
            \/ BadAlignment(RODataAlign)
            \/ BadAlignment(RWDataAlign) )
       => /\ ErrMsg' # ""
          /\ out' = out
          /\ pc'[t] = "idle"
          /\ Unmapped' = Unmapped
          /\ Unfinalized' = Unfinalized]_vars

(* A reserve call rejected for its rw-data alignment alone. *)
C4_Witness ==
  /\ ErrMsg = "Invalid rw-data alignment in reserveAllocationSpace"
  /\ stage["t1"] = "staging"
  /\ Unmapped = <<>>
  /\ \A t \in Threads : out[t] = NoCall

----------------------------------------------------------------------------
(* The three protection classes of a group, in the order code, read-only,  *)
(* read-write.                                                             *)
ClassAllocs(g, c) ==
  CASE c = 1 -> g.CodeAllocs [] c = 2 -> g.RODataAllocs [] OTHER -> g.RWDataAllocs

ClassRange(g, c) ==
  CASE c = 1 -> g.RemoteCode [] c = 2 -> g.RemoteROData [] OTHER -> g.RemoteRWData

(* The group whose finalize call thread t is blocked in. *)
InFinalize(t) == Head(loc[t].Allocs)

(* In class c of the group t is finalizing, each section's remote address  *)
(* is as far from the range start as its bytes are from the start of the   *)
(* aggregated segment.                                                     *)
SameOffsets(t, c) ==
  \A i \in 1 .. Len(ClassAllocs(InFinalize(t), c)) :
    ClassAllocs(InFinalize(t), c)[i].RemoteAddr - ClassRange(InFinalize(t), c).Start
      = out[t].FR.Segments[c].Offsets[i]

(* The range start of class c is non-null and a multiple of the alignment  *)
(* of every section of the class.                                          *)
StartAligned(g, c) ==
  /\ ClassRange(g, c).Start # 0
  /\ \A i \in 1 .. Len(ClassAllocs(g, c)) :
       ClassRange(g, c).Start % ClassAllocs(g, c)[i].Align = 0

(* C2, as stated: for every group, class and section the offset of the     *)
(* remote address notifyObjectLoaded assigned equals the offset at which   *)
(* finalizeMemory copies the section, whatever the base and alignments.    *)
C2_OffsetsAgreeAlways ==
  \A t \in Threads : pc[t] = "finalizeWait" => \A c \in 1 .. 3 : SameOffsets(t, c)

(* C2, amended: the offsets agree in every class whose range start is      *)
(* non-null and a multiple of the alignment of each of its sections.       *)
C2_OffsetsAgreeWhenAligned ==
  \A t \in Threads :
    pc[t] = "finalizeWait" =>
      \A c \in 1 .. 3 : StartAligned(InFinalize(t), c) => SameOffsets(t, c)

(* A finalize call for a class of two sections, the second padded to its   *)
(* alignment, at an aligned non-null range start.                          *)
C2_Witness ==
  \E t \in Threads, c \in 1 .. 3 :
    /\ pc[t] = "finalizeWait"
    /\ StartAligned(InFinalize(t), c)
    /\ Len(ClassAllocs(InFinalize(t), c)) = 2
    /\ out[t].FR.Segments[c].Offsets[2] > ClassAllocs(InFinalize(t), c)[1].Size

----------------------------------------------------------------------------
(* Address a lies in one of the three ranges of group g. *)
InRange(g, a) == \E c \in 1 .. 3 : ClassRange(g, c).Start <= a /\ a < ClassRange(g, c).End

(* The Unfinalized groups, oldest first, whose ranges hold address a. *)
Holders(a) == {i \in 1 .. Len(Unfinalized) : InRange(Unfinalized[i], a)}

Latest(S) == CHOOSE i \in S : \A j \in S : j <= i

(* C7: a registerEHFrames call whose load address lies in no range of any  *)
(* Unfinalized group sets the sticky error and appends the frame to no     *)
(* group.                                                                  *)
C7_FrameOutsideIsError ==
  [][\A t \in Threads, LoadAddr \in LoadAddrs, Size \in FrameSizes :
       (registerEHFrames(t, LoadAddr, Size) /\ Holders(LoadAddr) = {})
       => /\ ErrMsg' # ""
          /\ Unfinalized' = Unfinalized
          /\ Unmapped' = Unmapped
          /\ loc' = loc]_vars

(* A frame was refused although a group was pending. *)
C7_Witness ==
  /\ ErrMsg = "eh-frame does not lie inside unfinalized alloc"
  /\ Unfinalized # <<>>
  /\ \A i \in 1 .. Len(Unfinalized) : Unfinalized[i].UnfinalizedEHFrames = <<>>

(* The frame (LoadAddr, Size) went to the latest group holding LoadAddr    *)
(* and nothing else changed in any group; no error was set.                *)
FrameAttached(LoadAddr, Size) ==
  /\ Unfinalized' =
       [Unfinalized EXCEPT ![Latest(Holders(LoadAddr))].UnfinalizedEHFrames =
          Append(@, [Addr |-> LoadAddr, Size |-> Size])]
  /\ Unmapped' = Unmapped
  /\ loc' = loc
  /\ ErrMsg' = ""

(* C8, as stated: whenever registerEHFrames is called with a load address  *)
(* held by some Unfinalized group, the frame is appended to the most       *)
(* recently added such group and to no other, and no error is set.         *)
C8_FrameAttachedAlways ==
  [][\A t \in Threads, LoadAddr \in LoadAddrs, Size \in FrameSizes :
       (registerEHFrames(t, LoadAddr, Size) /\ Holders(LoadAddr) # {})
       => FrameAttached(LoadAddr, Size)]_vars

(* C8, amended: the same, for a call made while no sticky error is set. *)
C8_FrameAttachedUnlessError ==
  [][\A t \in Threads, LoadAddr \in LoadAddrs, Size \in FrameSizes :
       (registerEHFrames(t, LoadAddr, Size) /\ ErrMsg = "" /\ Holders(LoadAddr) # {})
       => FrameAttached(LoadAddr, Size)]_vars

(* Two pending groups hold the frame's address: the later one has the      *)
(* frame, the earlier one has none.                                        *)
C8_Witness ==
  /\ Len(Unfinalized) = 2
  /\ Len(Unfinalized[2].UnfinalizedEHFrames) = 1
  /\ Unfinalized[1].UnfinalizedEHFrames = <<>>
  /\ InRange(Unfinalized[1], Unfinalized[2].UnfinalizedEHFrames[1].Addr)
  /\ InRange(Unfinalized[2], Unfinalized[2].UnfinalizedEHFrames[1].Addr)
  /\ ErrMsg = ""

----------------------------------------------------------------------------
(* C1: when two threads each load one object concurrently, every section   *)
(* a thread stages is appended to the group of that thread's own           *)
(* reservation, never to the other thread's group.                         *)
C1_SectionsInOwnGroup ==
  \A g \in AllGroups : \A c \in 1 .. 3 : \A i \in 1 .. Len(ClassAllocs(g, c)) :
    (\E h \in AllGroups : h.owner = ClassAllocs(g, c)[i].by)
      => g.owner = ClassAllocs(g, c)[i].by

(* C5: every error that becomes the sticky error is reported to the        *)
(* callers of finalizeMemory exactly once; here its half that no error is  *)
(* reported by two different finalizeMemory calls.                         *)
C5_ReportedAtMostOnce == \A e \in 1 .. Len(reports) : reports[e] <= 1

(* C6: a finalizeMemory call entered while a sticky error is present       *)
(* returns at once, reporting failure with that error, whether or not it   *)
(* was given an error-message out-parameter: it takes no group and issues  *)
(* no remote call.                                                         *)
C6_BailsOutOnError ==
  \A t \in Threads :
    (ret[t].State # "never" /\ ret[t].EntryErr # "")
      => /\ ret[t].State = "returned"
         /\ ret[t].Result = TRUE
         /\ ret[t].Msg = ret[t].EntryErr
         /\ pc[t] = "idle"

(* The ids of the groups in a sequence or set of groups. *)
Ids(S) == {g.id : g \in S}

(* C9: when a finalizeMemory call fails on one group of its batch, the     *)
(* groups of the batch whose finalize call was not yet issued are not      *)
(* lost (the manager or a running finalizeMemory call still holds each     *)
(* group that was mapped and has had no finalize call), and no group has   *)
(* its finalize call issued twice.                                         *)
C9_UnprocessedGroupsKept ==
  \A id \in 1 .. Len(finalizeIssued) :
    /\ finalizeIssued[id] <= 1
    /\ finalizeIssued[id] = 0 => id \in Ids(AllGroups)

(* C10: on destruction exactly one remote call is issued, to the resolved  *)
(* deallocate entry point, and its argument list holds the reserved base   *)
(* address of every group whose finalize call succeeded.                   *)
C10_DestructorDeallocates ==
  destroyed =>
    /\ Len(dtorCalls) = 1
    /\ dtorCalls[1].Fn = SAs.Deallocate
    /\ \A f \in finalizedOk : f.base \in SeqRange(dtorCalls[1].Arg)

----------------------------------------------------------------------------
(* C11: a finalizeMemory call entered while no group is pending and no     *)
(* sticky error is present takes an empty batch, issues no remote call     *)
(* and sets no error; a call whose batch is exhausted can only return,     *)
(* reporting success, again without a remote call or an error.             *)
C11_EmptyFinalizeSucceeds ==
  [][/\ \A t \in Threads, HasErrMsg \in BOOLEAN :
          (finalizeMemory(t, HasErrMsg) /\ Unfinalized = <<>> /\ ErrMsg = "")
          => /\ pc'[t] = "finalizeLoop"
             /\ loc'[t].Allocs = <<>>
             /\ out' = out
             /\ finalizeIssued' = finalizeIssued
             /\ ErrMsg' = ""
     /\ \A t \in Threads :
          (pc[t] = "finalizeLoop" /\ loc[t].Allocs = <<>> /\ pc'[t] # pc[t])
          => /\ ret'[t].State = "returned"
             /\ ret'[t].Result = FALSE
             /\ ret'[t].Msg = ""
             /\ pc'[t] = "idle"
             /\ out' = out
             /\ finalizeIssued' = finalizeIssued
             /\ ErrMsg' = ErrMsg]_vars

(* A finalizeMemory call entered without an error has returned success     *)
(* although no finalize call was ever issued for any group: nothing was    *)
(* pending when it was entered.                                            *)
C11_Witness ==
  \E t \in Threads :
    /\ ret[t].State = "returned"
    /\ ret[t].EntryErr = ""
    /\ ret[t].Result = FALSE
    /\ \A id \in 1 .. Len(finalizeIssued) : finalizeIssued[id] = 0
    /\ ErrMsg = ""
    /\ \A u \in Threads : out[u] = NoCall

----------------------------------------------------------------------------
(* The ids of the groups of a sequence, and whether no group is in it      *)
(* twice.                                                                  *)
SeqIds(q) == {q[i].id : i \in 1 .. Len(q)}

NoDuplicate(q) == \A i, j \in 1 .. Len(q) : q[i].id = q[j].id => i = j

(* C12: each group is in at most one of the Unmapped sequence, the         *)
(* Unfinalized sequence and the batch of one finalizeMemory call, and in   *)
(* it once; no group that is unmapped or pending was finalized.            *)
C12_GroupInOnePlace ==
  /\ NoDuplicate(Unmapped) /\ NoDuplicate(Unfinalized)
  /\ \A t \in Threads : NoDuplicate(loc[t].Allocs)
  /\ SeqIds(Unmapped) \cap SeqIds(Unfinalized) = {}
  /\ \A t \in Threads :
       /\ SeqIds(loc[t].Allocs) \cap SeqIds(Unmapped) = {}
       /\ SeqIds(loc[t].Allocs) \cap SeqIds(Unfinalized) = {}
       /\ \A u \in Threads \ {t} : SeqIds(loc[t].Allocs) \cap SeqIds(loc[u].Allocs) = {}
  /\ \A f \in finalizedOk : f.id \notin SeqIds(Unmapped) \cup SeqIds(Unfinalized)

(* One group is unmapped, with a section staged in it, while another is in *)
(* the batch of a finalizeMemory call blocked in its remote call.          *)
C12_Witness ==
  \E t \in Threads :
    /\ pc[t] = "finalizeWait"
    /\ loc[t].Allocs # <<>>
    /\ Unmapped # <<>>
    /\ \E i \in 1 .. Len(Unmapped) : Unmapped[i].CodeAllocs # <<>>

----------------------------------------------------------------------------
(* C13: with finalizeMemory calls of two threads overlapping each other,   *)
(* notifyObjectLoaded and reservations, the remote finalize call of a      *)
(* group is issued at most once: no two calls hold the same group in       *)
(* their batches or are blocked in the finalize call of the same group.    *)
C13_FinalizeIssuedOnce ==
  /\ \A id \in 1 .. Len(finalizeIssued) : finalizeIssued[id] <= 1
  /\ \A t, u \in Threads :
       t # u =>
         /\ SeqIds(loc[t].Allocs) \cap SeqIds(loc[u].Allocs) = {}
         /\ (pc[t] = "finalizeWait" /\ pc[u] = "finalizeWait")
              => out[t].Group # out[u].Group

(* Two finalizeMemory calls are blocked in their remote calls at the same  *)
(* time, each for a group of its own.                                      *)
C13_Witness ==
  /\ \A t \in Threads : pc[t] = "finalizeWait" /\ out[t].Fn = SAs.Finalize
  /\ out["t1"].Group # out["t2"].Group
  /\ finalizeIssued = <<1, 1>>

----------------------------------------------------------------------------
(* C14: every allocateCodeSection / allocateDataSection call the loader    *)
(* may make finds an Unmapped group to append its section to: none takes   *)
(* the last element of an empty Unmapped sequence, also not after a        *)
(* reserveAllocationSpace call that failed or short-circuited and pushed   *)
(* no group.                                                               *)
C14_AllocateFindsGroup == ~ub

----------------------------------------------------------------------------
(* The groups notifyObjectLoaded has mapped. *)
MappedGroups == SeqRange(Unfinalized) \cup Batches

(* The aggregate segment finalizeMemory sends for class c of group g. *)
SegmentRange(g, c) ==
  [Start |-> ClassRange(g, c).Start,
   End |-> ClassRange(g, c).Start + SegSize(ClassAllocs(g, c), 0)]

Inside(Inner, Outer) == Outer.Start <= Inner.Start /\ Inner.End <= Outer.End

Overlap(R, S) == R.Start < S.End /\ S.Start < R.End

(* Every section of class c of g has its remote range, and the class has   *)
(* its aggregate segment, inside the class's reserved range.               *)
FitsReservation(g, c) ==
  /\ \A i \in 1 .. Len(ClassAllocs(g, c)) :
       Inside([Start |-> ClassAllocs(g, c)[i].RemoteAddr,
               End |-> ClassAllocs(g, c)[i].RemoteAddr + ClassAllocs(g, c)[i].Size],
              ClassRange(g, c))
  /\ Inside(SegmentRange(g, c), ClassRange(g, c))

(* What the loader owes for class c of g: the range start is a multiple of *)
(* each section's alignment and the sections, padded to their alignments   *)
(* from offset 0, are no longer than the size reserved for the class.      *)
LoaderFits(g, c) ==
  /\ \A i \in 1 .. Len(ClassAllocs(g, c)) :
       ClassRange(g, c).Start % ClassAllocs(g, c)[i].Align = 0
  /\ SegmentRange(g, c).End <= ClassRange(g, c).End

(* C15, as stated: for every mapped group and class, every section's       *)
(* remote range and the aggregate segment lie inside the class's reserved  *)
(* range, and segments of different classes and groups do not overlap.     *)
C15_SegmentsFitAlways ==
  /\ \A g \in MappedGroups : \A c \in 1 .. 3 : FitsReservation(g, c)
  /\ \A g, h \in MappedGroups : \A c, d \in 1 .. 3 :
       (g.id # h.id \/ c # d) => ~Overlap(SegmentRange(g, c), SegmentRange(h, d))

(* C15, amended: the same for the classes for which the loader kept its    *)
(* side (LoaderFits), and, across groups, for groups reserved at non-null  *)
(* base addresses.                                                         *)
C15_SegmentsFitWhenLoaderFits ==
  /\ \A g \in MappedGroups : \A c \in 1 .. 3 :
       LoaderFits(g, c) => FitsReservation(g, c)
  /\ \A g, h \in MappedGroups : \A c, d \in 1 .. 3 :
       ( /\ g.id # h.id \/ c # d
         /\ LoaderFits(g, c) /\ LoaderFits(h, d)
         /\ g.id # h.id => (g.base # 0 /\ h.base # 0) )
       => ~Overlap(SegmentRange(g, c), SegmentRange(h, d))

(* Two mapped groups at non-null bases, each with a section that fits, and *)
(* one of them with a second class in use.                                 *)
C15_Witness ==
  \E g, h \in MappedGroups :
    /\ g.id # h.id /\ g.base # 0 /\ h.base # 0
    /\ \E c \in 1 .. 3 : ClassAllocs(g, c) # <<>> /\ LoaderFits(g, c)
    /\ \E d \in 1 .. 3 : ClassAllocs(h, d) # <<>> /\ LoaderFits(h, d)

----------------------------------------------------------------------------
(* Group h is group g with a remote address assigned to every section of   *)
(* its three classes and nothing else changed.                             *)
MappedFrom(h, g) ==
  /\ h.id = g.id /\ h.owner = g.owner /\ h.base = g.base /\ h.req = g.req
  /\ h.UnfinalizedEHFrames = g.UnfinalizedEHFrames
  /\ \A c \in 1 .. 3 :
       /\ ClassRange(h, c) = ClassRange(g, c)
       /\ Len(ClassAllocs(h, c)) = Len(ClassAllocs(g, c))
       /\ \A j \in 1 .. Len(ClassAllocs(g, c)) :
            /\ ClassAllocs(h, c)[j].Size = ClassAllocs(g, c)[j].Size
            /\ ClassAllocs(h, c)[j].Align = ClassAllocs(g, c)[j].Align
            /\ ClassAllocs(h, c)[j].Mapped
            /\ ClassAllocs(h, c)[j].RemoteAddr >= ClassRange(g, c).Start
            /\ ClassAllocs(h, c)[j].RemoteAddr % ClassAllocs(g, c)[j].Align = 0

(* C16: notifyObjectLoaded moves every group of Unmapped, mapped in its    *)
(* three classes, to the end of Unfinalized in the order they had; it      *)
(* leaves Unmapped empty and the groups already in Unfinalized unchanged.  *)
C16_NotifyMovesAll ==
  [][\A t \in Threads :
       notifyObjectLoaded(t)
       => /\ Unmapped' = <<>>
          /\ Len(Unfinalized') = Len(Unfinalized) + Len(Unmapped)
          /\ \A i \in 1 .. Len(Unfinalized) : Unfinalized'[i] = Unfinalized[i]
          /\ \A i \in 1 .. Len(Unmapped) :
               MappedFrom(Unfinalized'[Len(Unfinalized) + i], Unmapped[i])]_vars

(* One notifyObjectLoaded call moved two groups, in their order, with a    *)
(* mapped section: the other thread has not called it yet.                 *)
C16_Witness ==
  /\ Len(Unfinalized) = 2
  /\ Unfinalized[1].id < Unfinalized[2].id
  /\ Unmapped = <<>>
  /\ \E t \in Threads : stage[t] = "staging" /\ pc[t] = "idle"
  /\ \E i \in 1 .. 2, c \in 1 .. 3 :
       /\ ClassAllocs(Unfinalized[i], c) # <<>>
       /\ ClassAllocs(Unfinalized[i], c)[1].RemoteAddr # 0

----------------------------------------------------------------------------
(* n rounded up to a multiple of a. *)
PadTo(n, a) == CHOOSE m \in n .. (n + a - 1) : m % a = 0

(* Seg is the segment of the sections A laid out one after the other, each *)
(* padded to its alignment: the first is copied to offset 0, each next one *)
(* to the padded end of the one before, and the content ends with the      *)
(* last.                                                                   *)
LaidOut(Seg, A) ==
  /\ Len(Seg.Offsets) = Len(A)
  /\ A # <<>> => Seg.Offsets[1] = 0
  /\ \A i \in 2 .. Len(A) :
       Seg.Offsets[i] = PadTo(Seg.Offsets[i - 1] + A[i - 1].Size, A[i].Align)
  /\ Seg.ContentSize = IF A = <<>> THEN 0
                       ELSE Seg.Offsets[Len(A)] + A[Len(A)].Size

(* C17: the finalize call of a group is its only one and its request has   *)
(* three segments, code (read, execute), read-only data (read) and         *)
(* read-write data (read, write) in this order, each addressed at the      *)
(* start of the class's range with the class's laid-out sections as        *)
(* content, and one register / deregister action pair for each pending     *)
(* frame of the group, in their order, and no other action.                *)
C17_FinalizeRequestShape ==
  /\ \A t \in Threads :
       pc[t] = "finalizeWait" =>
         /\ out[t].Fn = SAs.Finalize
         /\ out[t].Instance = SAs.Instance
         /\ out[t].Group = InFinalize(t).id
         /\ finalizeIssued[InFinalize(t).id] = 1
         /\ Len(out[t].FR.Segments) = 3
         /\ out[t].FR.Segments[1].Prot = {"MF_READ", "MF_EXEC"}
         /\ out[t].FR.Segments[2].Prot = {"MF_READ"}
         /\ out[t].FR.Segments[3].Prot = {"MF_READ", "MF_WRITE"}
         /\ \A c \in 1 .. 3 :
              /\ out[t].FR.Segments[c].Addr = ClassRange(InFinalize(t), c).Start
              /\ LaidOut(out[t].FR.Segments[c], ClassAllocs(InFinalize(t), c))
         /\ Len(out[t].FR.Actions) = Len(InFinalize(t).UnfinalizedEHFrames)
         /\ \A i \in 1 .. Len(InFinalize(t).UnfinalizedEHFrames) :
              /\ out[t].FR.Actions[i].Finalize =
                   <<SAs.RegisterEHFrame, InFinalize(t).UnfinalizedEHFrames[i].Addr,
                     InFinalize(t).UnfinalizedEHFrames[i].Size>>
              /\ out[t].FR.Actions[i].Deallocate =
                   <<SAs.DeregisterEHFrame, InFinalize(t).UnfinalizedEHFrames[i].Addr,
                     InFinalize(t).UnfinalizedEHFrames[i].Size>>
  /\ \A f \in finalizedOk : finalizeIssued[f.id] = 1

(* A finalize call for the first group of a batch of two: the group has a  *)
(* section but no frame, the request has no action, and the frame pending  *)
(* in the second group is not in it.                                       *)
C17_Witness ==
  \E t \in Threads :
    /\ pc[t] = "finalizeWait"
    /\ Len(loc[t].Allocs) = 2
    /\ \E c \in 1 .. 3 : out[t].FR.Segments[c].ContentSize > 0
    /\ out[t].FR.Actions = <<>>
    /\ loc[t].Allocs[2].UnfinalizedEHFrames # <<>>

(* A finalize call whose request carries the action pair of a frame. *)
C17_WitnessFrame ==
  \E t \in Threads : pc[t] = "finalizeWait" /\ Len(out[t].FR.Actions) = 1

----------------------------------------------------------------------------
(* The answers with which a reserve call fails. *)
ReserveFailures == {Resp \in ReserveResponses : Resp.Kind \in {"channel", "executor"}}

(* C18: when the remote reserve call fails with a channel error or an      *)
(* error of the executor, that error becomes the sticky error, no group is *)
(* pushed and every group the manager or a finalizeMemory call holds stays *)
(* as it was.                                                              *)
C18_FailedReserveKeepsGroups ==
  [][\A t \in Threads, Resp \in ReserveFailures :
       reserveReturn(t, Resp)
       => /\ ErrMsg' = "reserve: " \o Resp.Kind \o " error"
          /\ Unmapped' = Unmapped
          /\ Unfinalized' = Unfinalized
          /\ \A u \in Threads : loc'[u].Allocs = loc[u].Allocs
          /\ pc'[t] = "idle"]_vars

(* A reserve call failed while one group, with a staged section, was       *)
(* unmapped: the group is still there.                                     *)
C18_Witness ==
  /\ ErrMsg \in {"reserve: channel error", "reserve: executor error"}
  /\ Len(Unmapped) = 1
  /\ \E c \in 1 .. 3 : ClassAllocs(Unmapped[1], c) # <<>>
  /\ \E t \in Threads : stage[t] = "staging" /\ pc[t] = "idle" /\ Unmapped[1].owner # t

----------------------------------------------------------------------------
(* Thread t is blocked in a remote reserve or finalize call. *)
InRemoteCall(t) == pc[t] \in {"reserveWait", "finalizeWait"}

(* C19: a thread blocked in a remote reserve or finalize call does not     *)
(* hold the mutex M, and M is free for the guarded blocks of               *)
(* allocate*Section, notifyObjectLoaded and registerEHFrames of the other  *)
(* threads.                                                                *)
C19_NoLockAcrossCall ==
  \A t \in Threads :
    InRemoteCall(t) =>
      /\ M # t
      /\ \A u \in Threads \ {t} : lock_guard(u)

(* A reserve call and a finalize call of two threads are outstanding at    *)
(* the same time.                                                          *)
C19_Witness ==
  \E t, u \in Threads :
    /\ pc[t] = "finalizeWait" /\ out[t].Fn = SAs.Finalize
    /\ pc[u] = "reserveWait" /\ out[u].Fn = SAs.Reserve
    /\ M = NoThread

----------------------------------------------------------------------------
(* C20, as stated: in a class whose range start is null the sections are   *)
(* left unmapped: no address is reported to the loader for them, and       *)
(* their remote address stays null.                                        *)
C20_NullStartLeftUnmapped ==
  \A g \in MappedGroups : \A c \in 1 .. 3 :
    ClassRange(g, c).Start = 0 =>
      \A i \in 1 .. Len(ClassAllocs(g, c)) :
        /\ ~ClassAllocs(g, c)[i].Mapped
        /\ ClassAllocs(g, c)[i].RemoteAddr = 0

(* C20, amended: in a class whose range start is null the running address  *)
(* is not advanced; every section of the class gets the null remote        *)
(* address, and that null address is reported to the loader for it.        *)
C20_NullStartNotAdvanced ==
  \A g \in MappedGroups : \A c \in 1 .. 3 :
    ClassRange(g, c).Start = 0 =>
      \A i \in 1 .. Len(ClassAllocs(g, c)) :
        /\ ClassAllocs(g, c)[i].Mapped
        /\ ClassAllocs(g, c)[i].RemoteAddr = 0

(* A mapped class with a null range start and two sections. *)
C20_Witness ==
  \E g \in MappedGroups : \E c \in 1 .. 3 :
    /\ ClassRange(g, c).Start = 0
    /\ Len(ClassAllocs(g, c)) = 2
    /\ ClassAllocs(g, c)[1].Size > 0

====
